---------------------------- MODULE Spec2Model ----------------------------
(***************************************************************************)
(* Model of flipkartpricing.py: PriceUpdateBot (the per-SKU convergence    *)
(* loop update_price_for, the batch loop run) and main (session scope).    *)
(*                                                                         *)
(* Python floats are modelled as exact decimals: a finite value is         *)
(* (-1)^neg * M / GrowthDen^e with M a little-endian sequence of limbs in  *)
(* 0..GrowthDen-1, plus the special values nan, inf and -inf with the      *)
(* comparison rules of IEEE floats.  The product current * 1.0199 is       *)
(* computed exactly (M * GrowthNum, e + 1).                                *)
(***************************************************************************)
EXTENDS Integers, Sequences, FiniteSets, TLC

\* ------------------------------------------------------------ bounds
\* Rows of the input sheet.
MaxRows == 2
\* Exact multiplications by 1.0199 kept per task (fractional limbs of a value).
MaxSteps == 4

\* ------------------------------------------------------------ numbers
\* 1.0199 = GrowthNum / GrowthDen; GrowthDen is also the limb base.
GrowthNum == 10199
GrowthDen == 10000

Max(a, b) == IF a > b THEN a ELSE b

NaN == [k |-> "nan", neg |-> FALSE, m |-> <<>>, e |-> 0]
PosInf == [k |-> "inf", neg |-> FALSE, m |-> <<>>, e |-> 0]
NegInf == [k |-> "inf", neg |-> TRUE, m |-> <<>>, e |-> 0]
\* A local that has not been assigned yet.
Unset == [k |-> "unset", neg |-> FALSE, m |-> <<>>, e |-> 0]

RECURSIVE StripHigh(_)
StripHigh(m) ==
    IF m # <<>> /\ m[Len(m)] = 0 THEN StripHigh(SubSeq(m, 1, Len(m) - 1)) ELSE m

RECURSIVE StripLow(_, _)
StripLow(m, e) ==
    IF e > 0 /\ m # <<>> /\ m[1] = 0 THEN StripLow(Tail(m), e - 1)
    ELSE [m |-> m, e |-> e]

\* The canonical finite value (-1)^neg * m / GrowthDen^e.
Fin(neg, m, e) ==
    LET hi == StripHigh(m)
        lo == StripLow(hi, e)
    IN  IF hi = <<>> THEN [k |-> "fin", neg |-> FALSE, m |-> <<>>, e |-> 0]
        ELSE [k |-> "fin", neg |-> neg, m |-> lo.m, e |-> lo.e]

\* The integer n, and the decimal n + c/100 (0 <= n < GrowthDen, 0 <= c < 100).
Num(n) == Fin(FALSE, <<n>>, 0)
Dec(n, c) == Fin(FALSE, <<c * 100, n>>, 1)
Neg(v) == [v EXCEPT !.neg = (v.m # <<>>)]

Zeros(n) == [j \in 1..n |-> 0]

RECURSIVE MulCarry(_, _, _)
MulCarry(m, f, c) ==
    IF m = <<>>
    THEN IF c = 0 THEN <<>> ELSE <<c % GrowthDen>> \o MulCarry(<<>>, f, c \div GrowthDen)
    ELSE LET p == m[1] * f + c
         IN  <<p % GrowthDen>> \o MulCarry(Tail(m), f, p \div GrowthDen)

RECURSIVE CmpFrom(_, _, _)
CmpFrom(x, y, n) ==
    IF n = 0 THEN 0
    ELSE IF x[n] < y[n] THEN -1
    ELSE IF x[n] > y[n] THEN 1
    ELSE CmpFrom(x, y, n - 1)

\* Compares |a| and |b| for finite a, b: -1, 0 or 1.
CmpMag(a, b) ==
    LET E == Max(a.e, b.e)
        x == Zeros(E - a.e) \o a.m
        y == Zeros(E - b.e) \o b.m
    IN  IF Len(x) < Len(y) THEN -1
        ELSE IF Len(x) > Len(y) THEN 1
        ELSE CmpFrom(x, y, Len(x))

Rank(a) ==
    IF a.k = "inf" THEN (IF a.neg THEN -2 ELSE 2)
    ELSE IF a.m = <<>> THEN 0
    ELSE IF a.neg THEN -1 ELSE 1

Cmp(a, b) ==
    IF Rank(a) < Rank(b) THEN -1
    ELSE IF Rank(a) > Rank(b) THEN 1
    ELSE IF Rank(a) = 1 THEN CmpMag(a, b)
    ELSE IF Rank(a) = -1 THEN CmpMag(b, a)
    ELSE 0

IsNum(a) == a.k \in {"fin", "inf"}

\* Python's a < b, a <= b on floats: False whenever an operand is nan.
Lt(a, b) == IsNum(a) /\ IsNum(b) /\ Cmp(a, b) < 0
Leq(a, b) == IsNum(a) /\ IsNum(b) /\ Cmp(a, b) <= 0

\* a * (f / GrowthDen) for a positive integer f.
Times(a, f) ==
    IF a.k = "fin" THEN Fin(a.neg, MulCarry(a.m, f, 0), a.e + 1) ELSE a

\* A slip of a digit in the factor: 1.0299.
GrowSlip(v) == Times(v, 10299)

\* current * 1.0199
Grow(v) == Times(v, GrowthNum)

RECURSIVE Inc(_)
Inc(m) ==
    IF m = <<>> THEN <<1>>
    ELSE IF m[1] + 1 < GrowthDen THEN <<m[1] + 1>> \o Tail(m)
    ELSE <<0>> \o Inc(Tail(m))

\* The number that the text f"{val:.2f}" denotes: val rounded to two decimals
\* (to the nearest, an exact tie to the even hundredth); nan and inf stay.
Fmt2(v) ==
    IF v.k # "fin" \/ v.e = 0 THEN v
    ELSE LET full == v.m \o Zeros(Max(0, v.e - Len(v.m)))
             top == full[v.e]
             keep == top \div 100
             rem == top % 100
             lowNonZero == \E j \in 1..(v.e - 1) : full[j] # 0
             up == \/ rem > 50
                   \/ rem = 50 /\ lowNonZero
                   \/ rem = 50 /\ ~lowNonZero /\ keep % 2 = 1
             kept == IF up THEN keep + 1 ELSE keep
             int == SubSeq(full, v.e + 1, Len(full))
         IN  IF kept = 100 THEN Fin(v.neg, <<0>> \o Inc(int), 1)
             ELSE Fin(v.neg, <<kept * 100>> \o int, 1)

\* ------------------------------------------------------------ text
RECURSIVE LStrip(_)
LStrip(s) == IF s # <<>> /\ s[1] = " " THEN LStrip(Tail(s)) ELSE s

RECURSIVE RStrip(_)
RStrip(s) ==
    IF s # <<>> /\ s[Len(s)] = " " THEN RStrip(SubSeq(s, 1, Len(s) - 1)) ELSE s

\* str.strip()
Strip(s) == RStrip(LStrip(s))

\* ------------------------------------------------------------ inputs
\* --login-wait (argparse type=int): negative values are accepted.
LoginWaits == {-1, 60}

\* A cell of the SKU column read with dtype str: text, or blank (pandas keeps
\* a missing cell as the float nan).
SkuCells ==
    { [blank |-> FALSE, s |-> <<"A">>],
      [blank |-> FALSE, s |-> <<" ", "B", " ">>],
      [blank |-> FALSE, s |-> <<" ", " ">>],
      [blank |-> TRUE, s |-> <<>>] }

\* A cell of the FinalPrice column: a number, blank, or text that is no number.
PriceCells ==
    { [t |-> "num", v |-> Num(105)],
      [t |-> "num", v |-> Fin(FALSE, <<40, 105>>, 1)],   \* 105.004
      [t |-> "num", v |-> Num(99)],
      [t |-> "num", v |-> Neg(Num(5))],
      [t |-> "blank", v |-> NaN],
      [t |-> "text", v |-> NaN] }

Rows == [sku : SkuCells, price : PriceCells]

RECURSIVE SeqsUpTo(_, _)
SeqsUpTo(S, n) ==
    IF n = 0 THEN {<<>>}
    ELSE LET shorter == SeqsUpTo(S, n - 1)
         IN  shorter \cup {Append(q, x) : q \in {r \in shorter : Len(r) = n - 1}, x \in S}

Sheets == SeqsUpTo(Rows, MaxRows)

\* What get_attribute("value") of the settlement field returns: None (no such
\* attribute), text that float() rejects, or text that float() parses to v
\* (from: the row of this run whose apply typed the text, 0 for none).
FieldTexts ==
    { [t |-> "none", v |-> NaN, from |-> 0],
      [t |-> "junk", v |-> NaN, from |-> 0],
      [t |-> "num", v |-> Num(100), from |-> 0],
      [t |-> "num", v |-> Num(105), from |-> 0],
      [t |-> "num", v |-> Num(0), from |-> 0],
      [t |-> "num", v |-> Neg(Num(10)), from |-> 0],
      [t |-> "num", v |-> NaN, from |-> 0],
      [t |-> "num", v |-> PosInf, from |-> 0] }

\* ------------------------------------------------------------ state
VARIABLES
    pc,          \* position in main / run / update_price_for
    login_wait,  \* args.login_wait
    session,     \* the Chrome session: "none", "open", "closed"
    quits,       \* calls of driver.quit()
    fatal,       \* the exception that left main, or "none"
    sheet,       \* the rows of the Excel file
    i,           \* the row the for loop of run() is at
    sku,         \* update_price_for's sku
    target,      \* update_price_for's target
    current,     \* update_price_for's current
    next_val,    \* update_price_for's next_val
    lastRead,    \* the value the last _get_settlement() returned
    reads,       \* _get_settlement() calls that returned, this task
    applied,     \* values of the _set_and_apply() calls that returned, this task
    field,       \* what was last typed into the settlement field
    outcomes,    \* per finished task: "done" (line 125) or "failed" (line 127)
    opened,      \* rows whose _open_listing() call was made
    calls,       \* the adapter calls made in this task, in order
    callRows,    \* the rows the adapter calls of the run were made for, in order
    got,         \* what get_attribute("value") returned in this task
    typed,       \* the texts typed by the _set_and_apply() calls that returned, this task
    ui,          \* the row whose apply last returned, and the text that apply typed
    echo         \* the row whose applied text this task's read returned, or 0

vars == <<pc, login_wait, session, quits, fatal, sheet, i, sku, target, current,
          next_val, lastRead, reads, applied, field, outcomes, opened,
          calls, callRows, got, typed, ui, echo>>

main == <<login_wait, session, quits, sheet>>
task == <<sku, target, current, next_val, lastRead, reads, applied>>
logs == <<calls, callRows, got>>
store == <<typed, ui, echo>>

Last(q) == q[Len(q)]

\* No text was read yet.
NoText == [t |-> "unset", v |-> NaN]

\* The calls of a task that are kept: all but the applies past MaxSteps + 1.
LogCall(c, op) == IF Len(c) < MaxSteps + 4 THEN Append(c, op) ELSE c

\* The row of a call, kept once for a run of calls made for the same row.
LogRow(q, r) == IF q # <<>> /\ Last(q) = r THEN q ELSE Append(q, r)

Init ==
    /\ pc = "init"
    /\ login_wait = 0
    /\ session = "none"
    /\ quits = 0
    /\ fatal = "none"
    /\ sheet = <<>>
    /\ i = 0
    /\ sku = <<>>
    /\ target = Unset
    /\ current = Unset
    /\ next_val = Unset
    /\ lastRead = Unset
    /\ reads = 0
    /\ applied = <<>>
    /\ field = Unset
    /\ outcomes = <<>>
    /\ opened = {}
    /\ calls = <<>>
    /\ callRows = <<>>
    /\ got = NoText
    /\ typed = <<>>
    /\ ui = [row |-> 0, text |-> Unset]
    /\ echo = 0

\* ------------------------------------------------------------ main
\* main(), lines 158-164, and __init__ up to the launch of Chrome (line 63):
\* the session is acquired, or the launch raises and main ends.
Launch ==
    /\ pc = "init"
    /\ \E lw \in LoginWaits : login_wait' = lw
    /\ \/ session' = "open" /\ pc' = "grace" /\ fatal' = fatal
       \/ session' = session /\ pc' = "exit" /\ fatal' = "session"
    /\ UNCHANGED <<quits, sheet, i, field, outcomes, opened>>
    /\ UNCHANGED task
    /\ UNCHANGED logs
    /\ UNCHANGED store

\* An exception raised in __init__ after the launch leaves main at line 160,
\* before the try of line 165 is entered.
InitRaises == pc' = "exit" /\ fatal' = "sleep"

\* __init__, lines 64-69: time.sleep(login_wait) raises ValueError for a
\* negative length.
LoginGrace ==
    /\ pc = "grace"
    /\ IF login_wait < 0 THEN InitRaises ELSE pc' = "run" /\ fatal' = fatal
    /\ UNCHANGED <<i, field, outcomes, opened>>
    /\ UNCHANGED main
    /\ UNCHANGED task
    /\ UNCHANGED logs
    /\ UNCHANGED store

\* run(), lines 130-132: read_excel with dtype FinalPrice float raises on a
\* cell that is no number; the exception leaves run() for the finally of main.
ReadExcel ==
    /\ pc = "run"
    /\ \E sh \in Sheets :
          /\ sheet' = sh
          /\ IF \E r \in 1..Len(sh) : sh[r].price.t = "text"
             THEN pc' = "finally" /\ fatal' = "read_excel" /\ i' = i
             ELSE pc' = "for" /\ fatal' = fatal /\ i' = 1
    /\ UNCHANGED <<login_wait, session, quits, field, outcomes, opened>>
    /\ UNCHANGED task
    /\ UNCHANGED logs
    /\ UNCHANGED store

\* Lines 111 and 112 in the other order: the pricing panel first.
TaskEntrySwapped == "open_modal"

\* Line 111: the first statement of update_price_for.
TaskEntry == "open_listing"

\* run(), lines 133-134: the next row, r["SKU"].strip() (AttributeError on the
\* float of a blank cell, outside any try) and float(r["FinalPrice"]); then
\* update_price_for is entered.
ForNext ==
    /\ pc = "for"
    /\ IF i > Len(sheet)
       THEN /\ pc' = "finally"
            /\ UNCHANGED <<fatal, task, calls, got, typed, echo>>
       ELSE IF sheet[i].sku.blank
       THEN /\ pc' = "finally"
            /\ fatal' = "strip"
            /\ UNCHANGED <<task, calls, got, typed, echo>>
       ELSE /\ pc' = TaskEntry
            /\ calls' = <<>>
            /\ got' = NoText
            /\ typed' = <<>>
            /\ echo' = 0
            /\ sku' = Strip(sheet[i].sku.s)
            /\ target' = sheet[i].price.v
            /\ current' = Unset
            /\ next_val' = Unset
            /\ lastRead' = Unset
            /\ reads' = 0
            /\ applied' = <<>>
            /\ fatal' = fatal
    /\ UNCHANGED <<i, field, outcomes, opened, callRows, ui>>
    /\ UNCHANGED main

\* main(), lines 167-168: finally: bot.quit().
Quit ==
    /\ pc = "finally"
    /\ session' = "closed"
    /\ quits' = quits + 1
    /\ pc' = "exit"
    /\ UNCHANGED <<login_wait, fatal, sheet, i, field, outcomes, opened>>
    /\ UNCHANGED task
    /\ UNCHANGED logs
    /\ UNCHANGED store

\* ------------------------------------------------------------ update_price_for
\* An exception escapes the task and run(), to the finally of main.
Propagate ==
    /\ outcomes' = outcomes
    /\ pc' = "finally"
    /\ i' = i
    /\ fatal' = "adapter"

\* The for loop stays at its row.
NextRowStays(r) == r

\* Line 133: the for loop steps to the row after r.
NextRow(r) == r + 1

\* The failed task is entered again.
CatchRetry ==
    /\ outcomes' = Append(outcomes, "failed")
    /\ pc' = "for"
    /\ i' = i
    /\ fatal' = fatal

\* An adapter call op is made for the row the loop is at.
Call(op) ==
    /\ calls' = LogCall(calls, op)
    /\ callRows' = LogRow(callRows, i)

\* Lines 126-127: except Exception logs the failure; update_price_for returns
\* and the for loop of run() goes on to the next row.
Catch ==
    /\ outcomes' = Append(outcomes, "failed")
    /\ pc' = "for"
    /\ i' = NextRow(i)
    /\ fatal' = fatal

\* Line 125: the task is logged as done; the for loop goes on to the next row.
Done ==
    /\ outcomes' = Append(outcomes, "done")
    /\ pc' = "for"
    /\ i' = NextRow(i)
    /\ fatal' = fatal

\* Line 111: _open_listing(sku): driver.get returns or raises.
OpenListing ==
    /\ pc = "open_listing"
    /\ opened' = opened \cup {i}
    /\ Call("open_listing")
    /\ \/ pc' = "open_modal" /\ UNCHANGED <<outcomes, i, fatal>>
       \/ Catch
    /\ UNCHANGED <<field, got>>
    /\ UNCHANGED store
    /\ UNCHANGED main
    /\ UNCHANGED task

\* Line 112: _open_pricing_modal(sku): the waits and clicks succeed or raise.
OpenPricingModal ==
    /\ pc = "open_modal"
    /\ Call("open_modal")
    /\ \/ pc' = "get_settlement" /\ UNCHANGED <<outcomes, i, fatal>>
       \/ Catch
    /\ UNCHANGED <<field, opened, got>>
    /\ UNCHANGED store
    /\ UNCHANGED main
    /\ UNCHANGED task

\* The field of a listing whose price this run applied before shows the text
\* that apply typed (a UI that stores what is applied): the read of a task
\* for the same SKU may return it.
Stored ==
    IF ui.row >= 1 /\ Strip(sheet[ui.row].sku.s) = sku
    THEN {[t |-> "num", v |-> ui.text, from |-> ui.row]}
    ELSE {}

\* Lines 114-115: current = self._get_settlement(): the wait for the field
\* times out, or float() raises on None or on text that is no number, or
\* float() returns the number read.
GetSettlement ==
    /\ pc = "get_settlement"
    /\ Call("get_settlement")
    /\ \/ Catch /\ UNCHANGED <<current, lastRead, reads, got, echo>>
       \/ \E txt \in FieldTexts \cup Stored :
             /\ got' = [t |-> txt.t, v |-> txt.v]
             /\ echo' = txt.from
             /\ IF txt.t = "num"
                THEN /\ current' = txt.v
                     /\ lastRead' = txt.v
                     /\ reads' = reads + 1
                     /\ pc' = "while"
                     /\ UNCHANGED <<outcomes, i, fatal>>
                ELSE Catch /\ UNCHANGED <<current, lastRead, reads>>
    /\ UNCHANGED <<sku, target, next_val, applied, field, opened, typed, ui>>
    /\ UNCHANGED main

\* Line 117, taken the other way: <= for <.
LoopCondLeq(cur, tgt) == Leq(cur, tgt)

\* Line 117: while current < target
LoopCond(cur, tgt) == Lt(cur, tgt)

\* Lines 118-120 without the clamp.
NextValNoClamp(cur, tgt) == Grow(cur)

\* Lines 118-120 with the comparison inverted.
NextValInverted(cur, tgt) == IF Lt(Grow(cur), tgt) THEN tgt ELSE Grow(cur)

\* Lines 118-120: next_val = current * 1.0199, clamped to target.
NextVal(cur, tgt) == IF Lt(tgt, Grow(cur)) THEN tgt ELSE Grow(cur)

\* The value is within the precision the model keeps.
Exact(v) == v.e < MaxSteps

\* The model stops here: the loop would go on with a value past the precision kept.
Cut == pc = "while" /\ LoopCond(current, target) /\ ~Exact(current)

\* Lines 117-121 and 125: the loop test; the next value, or the end of the task.
WhileStep ==
    /\ pc = "while"
    /\ IF LoopCond(current, target)
       THEN /\ Exact(current)
            /\ next_val' = NextVal(current, target)
            /\ pc' = "apply"
            /\ UNCHANGED <<outcomes, i, fatal>>
       ELSE Done /\ next_val' = next_val
    /\ UNCHANGED <<sku, target, current, lastRead, reads, applied, field, opened>>
    /\ UNCHANGED main
    /\ UNCHANGED logs
    /\ UNCHANGED store

\* The applied values kept: the MaxSteps most recent ones.
Record(h, v) == IF Len(h) < MaxSteps THEN Append(h, v) ELSE Append(Tail(h), v)

\* Line 123 left out: current keeps its value.
AdvanceNot(cur, val) == cur

\* Line 123: current = next_val
Advance(cur, val) == val

\* Lines 122-123: _set_and_apply(next_val): the wait for the field raises; or
\* the value is typed as f"{val:.2f}" and the wait for the Apply button
\* raises; or Apply is clicked and current = next_val.
SetAndApply ==
    /\ pc = "apply"
    /\ Call("apply")
    /\ \/ Catch /\ UNCHANGED <<field, applied, current, typed, ui>>
       \/ Catch /\ field' = Fmt2(next_val) /\ UNCHANGED <<applied, current, typed, ui>>
       \/ /\ field' = Fmt2(next_val)
          /\ typed' = Record(typed, Fmt2(next_val))
          /\ ui' = [row |-> i, text |-> Fmt2(next_val)]
          /\ applied' = Record(applied, next_val)
          /\ current' = Advance(current, next_val)
          /\ pc' = "while"
          /\ UNCHANGED <<outcomes, i, fatal>>
    /\ UNCHANGED <<sku, target, next_val, lastRead, reads, opened, got, echo>>
    /\ UNCHANGED main

Next ==
    \/ Launch
    \/ LoginGrace
    \/ ReadExcel
    \/ ForNext
    \/ OpenListing
    \/ OpenPricingModal
    \/ GetSettlement
    \/ WhileStep
    \/ SetAndApply
    \/ Quit

Spec == Init /\ [][Next]_vars

\* The program is sequential: whenever a step is possible it is taken.
FairSpec == Spec /\ WF_vars(Next)

\* ------------------------------------------------------------ properties
\* The locals of the last task entered are still in the state and that task
\* has ended.
TaskEnded == pc \in {"for", "finally", "exit"} /\ reads = 1

\* v * f for a positive integer f (the scale is kept).
ByInt(v, f) == IF v.k = "fin" THEN Fin(v.neg, MulCarry(v.m, f, 0), v.e) ELSE v

\* C1: Isolation. When the run has ended, every row that follows a failed
\* task was attempted (its open-listing call was made), as far as the rows in
\* between carry a SKU text, and no adapter failure left update_price_for to
\* end the run.
Isolation ==
    /\ fatal # "adapter"
    /\ pc = "exit" =>
         \A a \in 1..Len(outcomes) : \A b \in (a + 1)..Len(sheet) :
            (outcomes[a] = "failed" /\ \A r \in (a + 1)..b : ~sheet[r].sku.blank)
               => b \in opened

IsolationWitness ==
    /\ pc = "exit"
    /\ Len(outcomes) = 2
    /\ outcomes[1] = "failed"
    /\ 2 \in opened

\* C2: Termination. Every task that is entered ends (Done or Failed: the for
\* loop is reached again), whatever the first read returns, unless the model
\* stops it at its precision bound.
Termination == (pc = "open_listing") ~> (pc = "for" \/ Cut)

\* C3: No-overshoot. No value passed to _set_and_apply exceeds the target of
\* its task: neither the value about to be passed nor any value applied.
NoOvershoot ==
    /\ pc = "apply" => Leq(next_val, target)
    /\ \A n \in 1..Len(applied) : Leq(applied[n], target)

NoOvershootWitness ==
    /\ pc = "while"
    /\ Len(applied) = 3
    /\ Lt(applied[2], target)
    /\ applied[3] = target
    /\ Lt(target, Grow(applied[2]))

\* C4: Monotonicity. The applied values of a task never decrease, and a task
\* that ends as done after at least one apply applied the target last.
Monotonicity ==
    /\ \A n \in 1..(Len(applied) - 1) : Leq(applied[n], applied[n + 1])
    /\ (TaskEnded /\ Last(outcomes) = "done" /\ applied # <<>>)
          => applied[Len(applied)] = target

\* A row that is no task: no SKU, or no price > 0.
BadRow(r) ==
    \/ r.sku.blank
    \/ Strip(r.sku.s) = <<>>
    \/ r.price.t # "num"
    \/ ~Lt(Num(0), r.price.v)

\* C5: Input errors are task-level. When the run has ended every row of the
\* sheet has an outcome and a bad row's outcome is a failure; no apply call is
\* made for a bad row.
InputErrorsAreTaskLevel ==
    /\ pc = "exit" /\ fatal \notin {"session", "sleep"} =>
         /\ Len(outcomes) = Len(sheet)
         /\ \A r \in 1..Len(sheet) : BadRow(sheet[r]) => outcomes[r] = "failed"
    /\ (pc \in {"while", "apply"} /\ BadRow(sheet[i])) =>
         (pc # "apply" /\ applied = <<>>)

\* C6: Scoped session. When main has ended and the session was acquired, it
\* was released exactly once.
ScopedSession ==
    (pc = "exit" /\ session # "none") => (session = "closed" /\ quits = 1)

\* C7 as stated: current is always the last value read, and every applied
\* step was read back before the next step is decided.
CurrentIsLastRead ==
    /\ pc \in {"while", "apply"} => current = lastRead
    /\ pc = "apply" => reads = Len(applied) + 1

\* C7, amended: the settlement value is read once per task; current is that
\* value until the first apply has returned, and from then on the value passed
\* to the last apply that returned.
CurrentIsReadThenApplied ==
    pc \in {"while", "apply"} =>
       /\ reads = 1
       /\ applied = <<>> => current = lastRead
       /\ applied # <<>> => current = applied[Len(applied)]

CurrentIsReadThenAppliedWitness ==
    /\ pc = "while"
    /\ Len(applied) = 2
    /\ current # lastRead
    /\ current = applied[2]

\* C8: Idempotence on an already-met target. A task whose first read is at
\* least the target makes no apply call and ends as done.
AlreadyMet ==
    (reads = 1 /\ Leq(target, lastRead)) =>
       /\ applied = <<>>
       /\ pc # "apply"
       /\ TaskEnded => (outcomes # <<>> /\ Last(outcomes) = "done")

AlreadyMetWitness ==
    /\ TaskEnded
    /\ lastRead = Num(100)
    /\ target = Num(99)
    /\ applied = <<>>
    /\ Last(outcomes) = "done"

\* C9: Raise-only. Every value passed to _set_and_apply is at least the value
\* held as current just before, and every applied value at least the value
\* first read.
RaiseOnly ==
    /\ pc = "apply" => Leq(current, next_val)
    /\ \A n \in 1..Len(applied) : Leq(lastRead, applied[n])

\* C10: Step bound. Every value passed to _set_and_apply is at most 1.0199
\* times the current value held just before: it is that product, or the target
\* when the product exceeds the target.
StepBound ==
    pc = "apply" =>
       /\ Leq(ByInt(next_val, 10000), ByInt(current, 10199))
       /\ \/ next_val = Times(current, 10199)
          \/ next_val = target /\ Lt(target, Times(current, 10199))

StepBoundWitness ==
    /\ pc = "apply"
    /\ Len(applied) = 1
    /\ next_val = Times(current, 10199)
    /\ Lt(next_val, target)

\* The task of the scenario: first read 100, target 105.
Scenario100To105 == reads = 1 /\ lastRead = Num(100) /\ target = Num(105)

\* C11 as stated: the scenario ends with exactly 3 applies, of about 101.99,
\* 103.99 and (the next product, about 106.02, being clamped) 105.00.
ScenarioAsStated ==
    (TaskEnded /\ Scenario100To105 /\ Last(outcomes) = "done") =>
       /\ Len(applied) = 3
       /\ Fmt2(applied[1]) = Dec(101, 99)
       /\ Fmt2(applied[2]) = Dec(103, 99)
       /\ Fmt2(Times(applied[2], 10199)) = Dec(106, 2)
       /\ applied[3] = Num(105)

\* C11, amended: the scenario ends with exactly 3 applies, of 101.99, about
\* 104.02 (104.019601) and (the next product, about 106.09, being clamped)
\* 105.00, which is the final value.
ScenarioAmended ==
    /\ (TaskEnded /\ Scenario100To105 /\ Last(outcomes) = "done") =>
          /\ Len(applied) = 3
          /\ applied[1] = Dec(101, 99)
          /\ Fmt2(applied[2]) = Dec(104, 2)
          /\ Fmt2(Times(applied[2], 10199)) = Dec(106, 9)
          /\ applied[3] = Num(105)
          /\ current = Num(105)
          /\ field = Num(105)
    /\ (Scenario100To105 /\ pc \in {"while", "apply"}) => Len(applied) <= 3

ScenarioWitness ==
    /\ TaskEnded
    /\ Scenario100To105
    /\ Last(outcomes) = "done"
    /\ Len(applied) = 3

\* The apply calls among the calls c.
Applies(c) == Cardinality({n \in 1..Len(c) : c[n] = "apply"})

\* The last task ended as failed by a call made inside the stepping loop.
FailedInLoop == TaskEnded /\ Last(outcomes) = "failed" /\ Last(calls) = "apply"

\* C12: Failure inside the stepping loop. When a call fails after k applies
\* of the task have returned, the task is reported failed with those k applies
\* and the one failing call, no call of the task follows, what was applied and
\* typed stays (no rollback), and the for loop is at the next row.
FailureInsideLoop ==
    FailedInLoop =>
       /\ Applies(calls) = Len(applied) + 1
       /\ Len(callRows) = Len(outcomes)
       /\ current = (IF applied = <<>> THEN lastRead ELSE Last(applied))
       /\ applied # <<>> => field \in {Fmt2(Last(applied)), Fmt2(next_val)}
       /\ fatal \in {"none", "strip"}
       /\ pc = "for" => i = Len(outcomes) + 1

FailureInsideLoopWitness ==
    /\ FailedInLoop
    /\ Len(applied) = 1
    /\ Applies(calls) = 2
    /\ pc = "for"
    /\ i = 2
    /\ Len(sheet) = 2

\* update_price_for is running.
InTask == pc \in {"open_listing", "open_modal", "get_settlement", "while", "apply"}

\* C13: Call order within a task. The calls of a task are the open-listing
\* call, then the open-pricing-panel call, then the read, then applies only;
\* an apply is made only after the task's own three calls and its read.
CallOrder ==
    /\ \A n \in 1..Len(calls) :
          calls[n] = (IF n = 1 THEN "open_listing"
                      ELSE IF n = 2 THEN "open_modal"
                      ELSE IF n = 3 THEN "get_settlement"
                      ELSE "apply")
    /\ (InTask /\ calls # <<>>) => Last(callRows) = i
    /\ pc = "apply" => (Len(calls) >= 3 /\ reads = 1 /\ i \in opened)
    /\ applied # <<>> => Len(calls) >= 4

CallOrderWitness ==
    /\ pc = "while"
    /\ Len(applied) = 2
    /\ calls = <<"open_listing", "open_modal", "get_settlement", "apply", "apply">>

\* C14: Order across tasks. The rows adapter calls are made for are 1, 2, ...
\* in this order, each in one unbroken run of calls; while calls are made for
\* row i every earlier row has its outcome and row i has none.
OrderAcrossTasks ==
    /\ \A n \in 1..Len(callRows) : callRows[n] = n
    /\ Len(outcomes) <= Len(callRows)
    /\ Len(callRows) <= Len(outcomes) + 1
    /\ InTask => i = Len(outcomes) + 1
    /\ (InTask /\ calls # <<>>) => Len(callRows) = i

OrderAcrossTasksWitness ==
    /\ pc = "get_settlement"
    /\ i = 2
    /\ callRows = <<1, 2>>
    /\ Len(outcomes) = 1

\* Text of the settlement field that is missing or is no number.
BadText(g) ==
    \/ g.t \in {"none", "junk"}
    \/ g.t = "num" /\ g.v.k # "fin"

\* C15: Bad read value. A task whose read finds the field's value missing or
\* not a number (nan and infinite included) makes no apply call and ends as
\* failed, never as done (stated for the tasks whose target is > 0).
BadReadFails ==
    (BadText(got) /\ Lt(Num(0), target)) =>
       /\ applied = <<>>
       /\ pc # "apply"
       /\ pc \in {"for", "finally", "exit"} => Last(outcomes) = "failed"

\* C16: Single terminal outcome, no retry. When the run has ended every row
\* of the sheet was attempted once and has one outcome; during the run no row
\* has more than one outcome and no call is made for a row that has one.
SingleOutcome ==
    /\ (pc = "exit" /\ fatal \notin {"session", "sleep"}) =>
          /\ Len(callRows) = Len(sheet)
          /\ Len(outcomes) = Len(sheet)
    /\ \A n \in 1..Len(callRows) : callRows[n] = n
    /\ Len(outcomes) <= Len(callRows)
    /\ InTask => i = Len(outcomes) + 1

\* c * 1.0199^n
RECURSIVE Pow(_, _)
Pow(c, n) == IF n = 0 THEN c ELSE Times(Pow(c, n - 1), 10199)

\* C17: Apply count. In a task whose first read c is positive and below the
\* target t, the j-th applied value is c * 1.0199^j as long as that is below
\* t and is t otherwise, each applied value is above the one before, no apply
\* follows the one that reached t, and a task that ends as done made n >= 1
\* applies with n the smallest number such that c * 1.0199^n >= t.
ApplyCount ==
    (reads = 1 /\ Lt(Num(0), lastRead) /\ Lt(lastRead, target)) =>
       LET n == Len(applied)
       IN  /\ \A j \in 1..n :
                applied[j] = (IF Lt(Pow(lastRead, j), target)
                              THEN Pow(lastRead, j) ELSE target)
           /\ \A j \in 1..(n - 1) :
                Lt(Pow(lastRead, j), target) /\ Lt(applied[j], applied[j + 1])
           /\ (TaskEnded /\ Last(outcomes) = "done") =>
                /\ n >= 1
                /\ Leq(target, Pow(lastRead, n))
                /\ applied[n] = target

ApplyCountWitness ==
    /\ TaskEnded
    /\ Last(outcomes) = "done"
    /\ Lt(Num(0), lastRead)
    /\ Len(applied) = 3
    /\ applied[2] = Pow(lastRead, 2)
    /\ Lt(applied[2], target)
    /\ Lt(target, Pow(lastRead, 3))
    /\ applied[3] = target

\* C18: Re-run idempotence. A task that reads the text which an earlier task
\* of this run applied for the same SKU and the same target (a UI that stores
\* the text typed at each apply) reads a value >= target and makes no apply
\* call when the earlier task ended as done, and applies only values at or
\* above the value it read when the earlier task ended as failed.
RerunIdempotent ==
    (echo >= 1 /\ sheet[echo].price = sheet[Last(callRows)].price) =>
       /\ outcomes[echo] = "done" =>
             /\ Leq(target, lastRead)
             /\ applied = <<>>
             /\ pc # "apply"
       /\ outcomes[echo] = "failed" =>
             /\ \A n \in 1..Len(applied) : Leq(lastRead, applied[n])
             /\ pc = "apply" => Leq(current, next_val)

\* C19: Engine/UI agreement. In a task whose first read is positive, after
\* every apply that returned the value the engine holds as current equals the
\* two-decimal text that apply typed, and of two consecutive typed values the
\* later is at most 1.0199 times the earlier.
EngineUiAgree ==
    Lt(Num(0), lastRead) =>
       /\ (pc = "while" /\ typed # <<>>) => current = Last(typed)
       /\ \A n \in 1..(Len(typed) - 1) :
             Leq(ByInt(typed[n + 1], 10000), ByInt(typed[n], 10199))

=============================================================================
